---- MODULE Spec2Model ----
(***************************************************************************)
(* A model of package set (src/set.go): the generic type Set[E], a struct  *)
(* holding one Go map m map[E]struct{}, its methods and the free functions *)
(* of the package.                                                         *)
(*                                                                         *)
(* A Go map is a reference: copying a Set value copies the reference, and  *)
(* the zero value of Set holds the nil map.  The model therefore keeps a   *)
(* heap of map objects and, for every set variable of a client program, the*)
(* reference held in its field m.  The element type E is int.              *)
(***************************************************************************)
EXTENDS Integers, Sequences, FiniteSets, TLC

\* ------------------------------------------------------------------ bounds

\* Elements are the integers 0..MaxElem.
MaxElem == 1
\* Longest variadic value list, iterator sequence or JSON array handed in.
MaxLen == 2
\* Most sets handed to a variadic set function (Union, Intersection,
\* Difference counts s and the others).
MaxArgs == 2

\* ------------------------------------------------------------- the domain

\* "var v E" for E = int: the zero value of the element type.
ZeroE == 0

Elems == 0..MaxElem

\* The set variables of the client program, and an order on them.
VarSeq == <<"a", "b">>

Vars == {VarSeq[i] : i \in 1..Len(VarSeq)}

\* The nil map held by a zero Set.
NIL == 0

\* Addresses of map objects: one per variable and two temporaries (the
\* locals o and r of Difference).
Addr == 1..(Len(VarSeq) + 2)

Range(f) == {f[i] : i \in DOMAIN f}

\* All sequences over S of length at most n.
SeqsUpTo(S, n) == UNION {[1..k -> S] : k \in 0..n}

\* The value lists (v ...E) and the finite iter.Seq[E] inputs.
ValueSeqs == SeqsUpTo(Elems, MaxLen)

\* The value lists of at most one value.
ShortSeqs == SeqsUpTo(Elems, 1)

\* The argument lists (sets ...Set[E]).
ArgSeqs == SeqsUpTo(Vars, MaxArgs)

VARIABLES
    mem,    \* the heap: mem[p] is the key set of the map object at address p
    m,      \* m[x] is the field m of set variable x: an address, or NIL
    last,   \* the call just made: its name, receiver, inputs and results
    link    \* the latest set-returning call whose result and inputs have
            \* since then only been mutated by Add, Delete, Clear and Pop

vars == <<mem, m, last, link>>

\* --------------------------------------------------------------- the heap

\* make(map[E]struct{}): the lowest address not in use.
NewAddr(h) == CHOOSE p \in Addr \ DOMAIN h : \A q \in Addr \ DOMAIN h : p <= q

\* The heap h with the map at p holding exactly the keys ks.
Store(h, p, ks) ==
    IF p \in DOMAIN h THEN [h EXCEPT ![p] = ks] ELSE (p :> ks) @@ h

\* for v := range s.m, as a set; ranging over the nil map yields nothing.
Keys(h, p) == IF p = NIL THEN {} ELSE h[p]

\* len(s.m); len of the nil map is 0.
MapLen(h, p) == Cardinality(Keys(h, p))

\* ------------------------------------------------------ the methods of Set

\* Add as it would be if the map were made only when there is a value to
\* store.
AddLazy(h, p, v) ==
    IF v = <<>> THEN [h |-> h, p |-> p]
    ELSE LET q  == IF p = NIL THEN NewAddr(h) ELSE p
             h1 == IF p = NIL THEN Store(h, q, {}) ELSE h
         IN  [h |-> Store(h1, q, h1[q] \cup Range(v)), p |-> q]

\* Add: s.m is made when it is nil, whatever the length of v, and every
\* element of v is stored in it.  Pointer receiver: the result names the heap
\* and the receiver's field m after the call.
Add(h, p, v) ==
    LET q  == IF p = NIL THEN NewAddr(h) ELSE p
        h1 == IF p = NIL THEN Store(h, q, {}) ELSE h
    IN  [h |-> Store(h1, q, h1[q] \cup Range(v)), p |-> q]

\* Of: a zero Set s, then s.Add(v...).
Of(h, v) == Add(h, NIL, v)

\* AddSeq: s.Add(v) for every v of seq, in the order of seq.
RECURSIVE AddSeq(_, _, _)
AddSeq(h, p, seq) ==
    IF seq = <<>> THEN [h |-> h, p |-> p]
    ELSE LET r == Add(h, p, <<Head(seq)>>)
         IN  AddSeq(r.h, r.p, Tail(seq))

\* Clear as it would be if it did nothing.
ClearNothing(h, p) == h

\* Clear: clear(s.m); clearing the nil map does nothing.  Value receiver: the
\* caller's field m cannot change, the result is the heap.
Clear(h, p) == IF p = NIL THEN h ELSE Store(h, p, {})

\* Clone as it would be if the map itself were copied into the new Set.
CloneShared(h, p) == [h |-> h, p |-> p]

\* Clone: Set{m: maps.Clone(s.m)}; maps.Clone of the nil map is nil.
Clone(h, p) ==
    IF p = NIL THEN [h |-> h, p |-> NIL]
    ELSE LET q == NewAddr(h)
         IN  [h |-> Store(h, q, h[p]), p |-> q]

\* Contains: the lookup s.m[v].
Contains(h, p, v) == v \in Keys(h, p)

\* Delete that returns the number of values handed in.
DeleteRequested(h, p, v) ==
    LET h1 == IF p = NIL THEN h ELSE Store(h, p, h[p] \ Range(v))
    IN  [h |-> h1, n |-> Len(v)]

\* Delete: delete(s.m, w) for every w of v (nothing on the nil map); the
\* result n is len before minus len after.
Delete(h, p, v) ==
    LET ln == MapLen(h, p)
        h1 == IF p = NIL THEN h ELSE Store(h, p, h[p] \ Range(v))
    IN  [h |-> h1, n |-> ln - MapLen(h1, p)]

\* A func(E) bool: nil, or the predicate that holds exactly on the set on.
NilFunc == [nil |-> TRUE, on |-> {}]

Funcs == {NilFunc} \cup {[nil |-> FALSE, on |-> S] : S \in SUBSET Elems}

\* DeleteFunc: 0 for the nil function; else every v with del(v) is deleted
\* and the result is len before minus len after.
DeleteFunc(h, p, del) ==
    IF del.nil THEN [h |-> h, n |-> 0]
    ELSE LET ln == MapLen(h, p)
             h1 == IF p = NIL THEN h ELSE Store(h, p, h[p] \ del.on)
         IN  [h |-> h1, n |-> ln - MapLen(h1, p)]

\* DeleteSeq: for every v of seq found in s.m, delete it and count it.
RECURSIVE DeleteSeqFrom(_, _, _, _)
DeleteSeqFrom(h, p, seq, c) ==
    IF seq = <<>> THEN [h |-> h, n |-> c]
    ELSE IF Contains(h, p, Head(seq))
         THEN DeleteSeqFrom(Store(h, p, h[p] \ {Head(seq)}), p, Tail(seq), c + 1)
         ELSE DeleteSeqFrom(h, p, Tail(seq), c)

DeleteSeq(h, p, seq) == DeleteSeqFrom(h, p, seq, 0)

\* Equal: different lengths, unequal; both empty, equal; else every element
\* of s is looked up in u.
Equal(h, p, u) ==
    IF MapLen(h, p) # MapLen(h, u) THEN FALSE
    ELSE IF MapLen(h, p) = 0 /\ MapLen(h, u) = 0 THEN TRUE
    ELSE \A v \in Keys(h, p) : Contains(h, u, v)

\* IsZero: s.m == nil.
IsZero(p) == p = NIL

\* Size: len(s.m).
Size(h, p) == MapLen(h, p)

\* Pop that returns a key and leaves it in the map.
PopKeeps(h, p) ==
    IF MapLen(h, p) = 0 THEN {[h |-> h, v |-> ZeroE, ok |-> FALSE]}
    ELSE {[h |-> h, v |-> k, ok |-> TRUE] : k \in h[p]}

\* Pop: the outcomes of one call.  On an empty or nil map the zero value and
\* false; else the key k the range statement visits first (any key of the
\* map) is deleted and returned with true.
Pop(h, p) ==
    IF MapLen(h, p) = 0 THEN {[h |-> h, v |-> ZeroE, ok |-> FALSE]}
    ELSE {[h |-> Store(h, p, h[p] \ {k}), v |-> k, ok |-> TRUE] : k \in h[p]}

\* ------------------------------------------------------------------- JSON

\* JSON text is a sequence of tokens.  A number token carries its value.
Tok(t) == [t |-> t, v |-> 0]

Num(e) == [t |-> "num", v |-> e]

\* json.Marshal(nil): the text null.
JsonNull == <<Tok("null")>>

\* The elements of the slice v, each encoded as a number, joined by commas.
RECURSIVE JsonItems(_)
JsonItems(v) ==
    IF v = <<>> THEN <<>>
    ELSE IF Len(v) = 1 THEN <<Num(v[1])>>
    ELSE <<Num(v[1]), Tok(",")>> \o JsonItems(Tail(v))

\* json.Marshal(v) for a slice v that is not nil: an array, [] when empty.
JsonArray(v) == <<Tok("[")>> \o JsonItems(v) \o <<Tok("]")>>

\* json.Unmarshal(b, &i) for var i []T.  The text null leaves i nil; an
\* array of numbers (a null element decodes to the zero value) fills i; any
\* other text is an error.
JsonUnmarshal(b) ==
    LET n     == Len(b)
        inner == IF n >= 2 THEN SubSeq(b, 2, n - 1) ELSE <<>>
        k     == Len(inner)
        isArr == /\ n >= 2
                 /\ b[1].t = "["
                 /\ b[n].t = "]"
                 /\ \/ k = 0
                    \/ /\ k % 2 = 1
                       /\ \A j \in 1..k :
                            IF j % 2 = 1 THEN inner[j].t \in {"num", "null"}
                            ELSE inner[j].t = ","
    IN  IF b = JsonNull THEN [err |-> FALSE, isNil |-> TRUE, i |-> <<>>]
        ELSE IF isArr
        THEN [err |-> FALSE, isNil |-> FALSE,
              i |-> [j \in 1..((k + 1) \div 2) |->
                        IF inner[2 * j - 1].t = "num" THEN inner[2 * j - 1].v
                        ELSE ZeroE]]
        ELSE [err |-> TRUE, isNil |-> FALSE, i |-> <<>>]

\* The orders in which a range statement may visit the keys S.
Orders(S) == {s \in [1..Cardinality(S) -> S] : Range(s) = S}

\* MarshalJSON: the texts one call may return.  null for the nil map; else
\* the array of the keys, appended to an empty slice in iteration order.
MarshalJSON(h, p) ==
    IF p = NIL THEN {JsonNull}
    ELSE {JsonArray(v) : v \in Orders(h[p])}

\* UnmarshalJSON as it would be if s were cleared before the text is decoded.
UnmarshalJSONClearFirst(h, p, b) ==
    LET d  == JsonUnmarshal(b)
        h0 == Clear(h, p)
    IN  IF d.err THEN [h |-> h0, p |-> p, err |-> TRUE]
        ELSE IF d.isNil THEN [h |-> h0, p |-> NIL, err |-> FALSE]
        ELSE LET r == Add(h0, p, d.i)
             IN  [h |-> r.h, p |-> r.p, err |-> FALSE]

\* UnmarshalJSON as it would be if an array were added to s without clearing.
UnmarshalJSONMerge(h, p, b) ==
    LET d == JsonUnmarshal(b)
    IN  IF d.err THEN [h |-> h, p |-> p, err |-> TRUE]
        ELSE IF d.isNil THEN [h |-> h, p |-> NIL, err |-> FALSE]
        ELSE LET r == Add(h, p, d.i)
             IN  [h |-> r.h, p |-> r.p, err |-> FALSE]

\* UnmarshalJSON as it would be if an empty array were taken for null.
UnmarshalJSONEmptyNil(h, p, b) ==
    LET d == JsonUnmarshal(b)
    IN  IF d.err THEN [h |-> h, p |-> p, err |-> TRUE]
        ELSE IF d.isNil \/ d.i = <<>> THEN [h |-> h, p |-> NIL, err |-> FALSE]
        ELSE LET r == Add(Clear(h, p), p, d.i)
             IN  [h |-> r.h, p |-> r.p, err |-> FALSE]

\* UnmarshalJSON: a decoding error is returned before s is touched; null
\* sets s.m to nil; an array clears s and adds its elements.
UnmarshalJSON(h, p, b) ==
    LET d == JsonUnmarshal(b)
    IN  IF d.err THEN [h |-> h, p |-> p, err |-> TRUE]
        ELSE IF d.isNil THEN [h |-> h, p |-> NIL, err |-> FALSE]
        ELSE LET r == Add(Clear(h, p), p, d.i)
             IN  [h |-> r.h, p |-> r.p, err |-> FALSE]

\* ------------------------------------------------------ the set functions

\* for v := range S { r.Add(v) }: one Add per element, none for empty S.
RECURSIVE AddKeys(_, _, _)
AddKeys(h, r, S) ==
    IF S = {} THEN [h |-> h, p |-> r]
    ELSE LET v == CHOOSE x \in S : TRUE
             a == Add(h, r, <<v>>)
         IN  AddKeys(a.h, a.p, S \ {v})

\* Collect: a zero Set r, then r.Add(v) for every v of seq.
Collect(h, seq) == AddSeq(h, NIL, seq)

\* The loops of Union: every element of every set of sets is added to r.
RECURSIVE UnionInto(_, _, _)
UnionInto(h, r, sets) ==
    IF sets = <<>> THEN [h |-> h, p |-> r]
    ELSE LET a == AddKeys(h, r, Keys(h, Head(sets)))
         IN  UnionInto(a.h, a.p, Tail(sets))

\* Union as it would be if the elements were added to the first set given.
UnionIntoFirst(h, sets) ==
    IF sets = <<>> THEN [h |-> h, p |-> NIL]
    ELSE UnionInto(h, Head(sets), Tail(sets))

\* Union as it would be if r were made before the elements are added.
UnionMade(h, sets) ==
    LET r == Of(h, <<>>)
    IN  UnionInto(r.h, r.p, sets)

\* Union: a zero Set r, then every element of every set is added to r.
Union(h, sets) == UnionInto(h, NIL, sets)

\* Intersection as it would be if one set alone were intersected with
\* nothing.
IntersectionOfOne(h, sets) ==
    IF Len(sets) < 1 THEN [h |-> h, p |-> NIL]
    ELSE AddKeys(h, NIL,
                 {v \in Keys(h, sets[1]) :
                    \A j \in 2..Len(sets) : Contains(h, sets[j], v)})

\* Intersection: the zero Set for fewer than two sets; else the elements of
\* sets[0] that every other set contains are added to a zero Set r.
Intersection(h, sets) ==
    IF Len(sets) < 2 THEN [h |-> h, p |-> NIL]
    ELSE AddKeys(h, NIL,
                 {v \in Keys(h, sets[1]) :
                    \A j \in 2..Len(sets) : Contains(h, sets[j], v)})

\* Difference as it would be if s were copied when there are no others.
DifferenceCopy(h, s, others) ==
    IF Len(others) = 0 THEN Clone(h, s)
    ELSE LET o == Union(h, others)
         IN  AddKeys(o.h, NIL, {v \in Keys(o.h, s) : ~Contains(o.h, o.p, v)})

\* Difference: s itself without others; else o is the Union of the others
\* and the elements of s that o does not contain are added to a zero Set r.
Difference(h, s, others) ==
    IF Len(others) = 0 THEN [h |-> h, p |-> s]
    ELSE LET o == Union(h, others)
         IN  AddKeys(o.h, NIL, {v \in Keys(o.h, s) : ~Contains(o.h, o.p, v)})

\* A func(a, b E) int that is a total preorder: it compares the keys it
\* gives the elements.
Cmps == [Elems -> Elems]

\* cmp(a, b): negative, zero or positive.
Cmp(cmp, a, b) == cmp[a] - cmp[b]

\* The built-in max and min of two ordered values.
BuiltinMax(a, b) == IF a >= b THEN a ELSE b

BuiltinMin(a, b) == IF a <= b THEN a ELSE b

\* The outcome of a call that panics, and of one that returns v.
Panic == [panic |-> TRUE, v |-> ZeroE]

Return(v) == [panic |-> FALSE, v |-> v]

\* Max, second loop: m = max(m, x) for the x of seq.
RECURSIVE MaxOver(_, _)
MaxOver(mx, seq) ==
    IF seq = <<>> THEN mx ELSE MaxOver(BuiltinMax(mx, Head(seq)), Tail(seq))

\* Max: the outcomes of one call.  It panics when Size is below 1; else m
\* is the first element one traversal visits, and a second traversal, in
\* an order of its own, takes the maximum of m and every element.
Max(h, p) ==
    IF Size(h, p) < 1 THEN {Panic}
    ELSE {Return(MaxOver(first, seq)) :
            first \in Keys(h, p), seq \in Orders(Keys(h, p))}

\* MaxFunc, second loop: m = x whenever cmp(x, m) > 0.
RECURSIVE MaxFuncOver(_, _, _)
MaxFuncOver(mx, seq, cmp) ==
    IF seq = <<>> THEN mx
    ELSE MaxFuncOver(IF Cmp(cmp, Head(seq), mx) > 0 THEN Head(seq) ELSE mx,
                     Tail(seq), cmp)

\* MaxFunc that returns the first element it visits.
MaxFuncFirst(h, p, cmp) ==
    IF Size(h, p) < 1 THEN {Panic}
    ELSE {Return(first) : first \in Keys(h, p)}

\* MaxFunc: as Max, with cmp in the place of the built-in order.
MaxFunc(h, p, cmp) ==
    IF Size(h, p) < 1 THEN {Panic}
    ELSE {Return(MaxFuncOver(first, seq, cmp)) :
            first \in Keys(h, p), seq \in Orders(Keys(h, p))}

\* Min, second loop: m = min(m, x) for the x of seq.
RECURSIVE MinOver(_, _)
MinOver(mn, seq) ==
    IF seq = <<>> THEN mn ELSE MinOver(BuiltinMin(mn, Head(seq)), Tail(seq))

\* Min: as Max, with min.
Min(h, p) ==
    IF Size(h, p) < 1 THEN {Panic}
    ELSE {Return(MinOver(first, seq)) :
            first \in Keys(h, p), seq \in Orders(Keys(h, p))}

\* MinFunc, second loop: m = x whenever cmp(x, m) < 0.
RECURSIVE MinFuncOver(_, _, _)
MinFuncOver(mn, seq, cmp) ==
    IF seq = <<>> THEN mn
    ELSE MinFuncOver(IF Cmp(cmp, Head(seq), mn) < 0 THEN Head(seq) ELSE mn,
                     Tail(seq), cmp)

\* MinFunc: as MaxFunc, with cmp(x, m) < 0.
MinFunc(h, p, cmp) ==
    IF Size(h, p) < 1 THEN {Panic}
    ELSE {Return(MinFuncOver(first, seq, cmp)) :
            first \in Keys(h, p), seq \in Orders(Keys(h, p))}

\* ------------------------------------------------------ the client program

\* Addresses are not observable and unreferenced maps are garbage: the maps
\* the variables mm refer to, each at the index of the first variable that
\* holds it.
Canon(h, mm) ==
    LET First(x) == CHOOSE i \in 1..Len(VarSeq) :
                        /\ mm[VarSeq[i]] = mm[x]
                        /\ \A j \in 1..(i - 1) : mm[VarSeq[j]] # mm[x]
        m2 == [x \in Vars |-> IF mm[x] = NIL THEN NIL ELSE First(x)]
    IN  [mem |-> [a \in Range(m2) \ {NIL} |-> h[mm[VarSeq[a]]]],
         m   |-> m2]

\* The call leaves heap h and gives variable x the field p.
Commit(h, x, p) ==
    LET c == Canon(h, [m EXCEPT ![x] = p])
    IN  /\ mem' = c.mem
        /\ m' = c.m

\* The record of a call.  op is the function or method and x the receiver, or
\* the variable the result is assigned to; args are the set arguments, n the
\* number of values handed in, vals the set of values the call names (the
\* values handed to Delete or produced by the sequence handed to DeleteSeq,
\* the values the function handed to DeleteFunc holds on), data the JSON text
\* handed in or returned, ret and ok the results.  For Pop, n and vals
\* describe the run of calls (see CallPop).  cmp is the function handed to
\* MaxFunc or MinFunc, and for Max, Min, MaxFunc and MinFunc ok is false when
\* the call panicked.  zero tells whether the receiver was a zero set when
\* the method was called, and from names the variable whose MarshalJSON, the
\* call just before, returned the text handed to UnmarshalJSON.
NoCmp == [e \in Elems |-> ZeroE]

NoCall ==
    [op |-> "init", x |-> "", args |-> <<>>, n |-> 0, vals |-> {},
     cmp |-> NoCmp, data |-> <<>>, ret |-> 0, ok |-> TRUE, zero |-> FALSE, from |-> ""]

\* A call of the function op whose result is assigned to x.
FuncCall(op, x, args, n) ==
    [op |-> op, x |-> x, args |-> args, n |-> n, vals |-> {},
     cmp |-> NoCmp, data |-> <<>>, ret |-> 0, ok |-> TRUE, zero |-> FALSE, from |-> ""]

\* A call of the method op on x with n values, returning ret and ok.
MethodCall(op, x, n, ret, ok) ==
    [op |-> op, x |-> x, args |-> <<>>, n |-> n, vals |-> {},
     cmp |-> NoCmp, data |-> <<>>, ret |-> ret, ok |-> ok, zero |-> IsZero(m[x]), from |-> ""]

NoLink == [op |-> "none", res |-> "", ins |-> {}, pass |-> FALSE, zero |-> FALSE]

\* The link a set-returning call op(args) assigned to x starts: its inputs
\* are the argument variables other than x.
NewLink(op, x, args, pass, zero) ==
    IF Range(args) \ {x} = {} THEN NoLink
    ELSE [op |-> op, res |-> x, ins |-> Range(args) \ {x},
          pass |-> pass, zero |-> zero]

\* The JSON texts handed to UnmarshalJSON that are not null or an array of
\* numbers: no text, an object, a number, an unclosed array, an array of a
\* string, an array with a trailing comma.
BadDocs ==
    { <<>>,
      <<Tok("{"), Tok("}")>>,
      <<Num(1)>>,
      <<Tok("["), Num(1)>>,
      <<Tok("["), Tok("str"), Tok("]")>>,
      <<Tok("["), Num(1), Tok(","), Tok("]")>> }

\* The JSON texts handed to UnmarshalJSON: null, the arrays of no element,
\* of one number, of one null and of the same number twice, and the BadDocs.
\* (CallUnmarshalJSON is also handed the text MarshalJSON just returned.)
Docs ==
    {JsonNull, <<Tok("["), Tok("null"), Tok("]")>>}
        \cup {JsonArray(v) : v \in ShortSeqs}
        \cup {JsonArray(<<e, e>>) : e \in Elems}
        \cup BadDocs

Init ==
    /\ mem = [a \in {} |-> {}]
    /\ m = [x \in Vars |-> NIL]
    /\ last = NoCall
    /\ link = NoLink

\* x = set.Of(v...)
CallOf(x, v) ==
    \E r \in {Of(mem, v)} :
        /\ Commit(r.h, x, r.p)
        /\ last' = FuncCall("Of", x, <<>>, Len(v))
        /\ link' = NoLink

\* x.Add(v...)
CallAdd(x, v) ==
    \E r \in {Add(mem, m[x], v)} :
        /\ Commit(r.h, x, r.p)
        /\ last' = MethodCall("Add", x, Len(v), 0, TRUE)
        /\ link' = link

\* x.AddSeq(seq)
CallAddSeq(x, seq) ==
    \E r \in {AddSeq(mem, m[x], seq)} :
        /\ Commit(r.h, x, r.p)
        /\ last' = MethodCall("AddSeq", x, Len(seq), 0, TRUE)
        /\ link' = NoLink

\* x.Clear().  Clear, Delete, DeleteFunc, DeleteSeq and Pop have value
\* receivers: they work on a copy of x that holds the same map, and the field
\* m of x stays as it is.
CallClear(x) ==
    /\ mem' = Clear(mem, m[x])
    /\ UNCHANGED m
    /\ last' = MethodCall("Clear", x, 0, 0, TRUE)
    /\ link' = link

\* x = y.Clone()
CallClone(x, y) ==
    \E r \in {Clone(mem, m[y])} :
        /\ Commit(r.h, x, r.p)
        /\ last' = FuncCall("Clone", x, <<y>>, 0)
        /\ link' = NewLink("Clone", x, <<y>>, FALSE, FALSE)

\* n := x.Delete(v...)
CallDelete(x, v) ==
    \E r \in {Delete(mem, m[x], v)} :
        /\ mem' = r.h
        /\ UNCHANGED m
        /\ last' = [MethodCall("Delete", x, Len(v), r.n, TRUE)
                        EXCEPT !.vals = Range(v)]
        /\ link' = link

\* n := x.DeleteFunc(del); ok records that del was not nil.
CallDeleteFunc(x, del) ==
    \E r \in {DeleteFunc(mem, m[x], del)} :
        /\ mem' = r.h
        /\ UNCHANGED m
        /\ last' = [MethodCall("DeleteFunc", x, 0, r.n, ~del.nil)
                        EXCEPT !.vals = del.on]
        /\ link' = NoLink

\* n := x.DeleteSeq(seq)
CallDeleteSeq(x, seq) ==
    \E r \in {DeleteSeq(mem, m[x], seq)} :
        /\ mem' = r.h
        /\ UNCHANGED m
        /\ last' = [MethodCall("DeleteSeq", x, Len(seq), r.n, TRUE)
                        EXCEPT !.vals = Range(seq)]
        /\ link' = NoLink

\* b, _ := x.MarshalJSON()
CallMarshalJSON(x) ==
    \E b \in MarshalJSON(mem, m[x]) :
        /\ UNCHANGED <<mem, m>>
        /\ last' = [MethodCall("MarshalJSON", x, 0, 0, TRUE) EXCEPT !.data = b]
        /\ link' = NoLink

\* v, ok := x.Pop().  Calls of Pop on x that follow one another are a run:
\* vals records the members x had when the run began and n the number of
\* calls of the run that returned true.
CallPop(x) ==
    \E r \in Pop(mem, m[x]) :
        LET run  == last.op = "Pop" /\ last.x = x
            done == IF run THEN last.n ELSE 0
        IN  /\ mem' = r.h
            /\ UNCHANGED m
            /\ last' = [MethodCall("Pop", x, done + (IF r.ok THEN 1 ELSE 0),
                                   r.v, r.ok)
                            EXCEPT !.vals = IF run THEN last.vals
                                            ELSE Keys(mem, m[x])]
            /\ link' = link

\* err := x.UnmarshalJSON(b)
CallUnmarshalJSON(x, b) ==
    \E r \in {UnmarshalJSON(mem, m[x], b)} :
        /\ Commit(r.h, x, r.p)
        /\ last' = [MethodCall("UnmarshalJSON", x, 0, 0, ~r.err) EXCEPT
                        !.data = b,
                        !.from = IF last.op = "MarshalJSON" /\ b = last.data
                                 THEN last.x ELSE ""]
        /\ link' = NoLink

\* x = set.Collect(seq)
CallCollect(x, seq) ==
    \E r \in {Collect(mem, seq)} :
        /\ Commit(r.h, x, r.p)
        /\ last' = FuncCall("Collect", x, <<>>, Len(seq))
        /\ link' = NoLink

\* x = set.Difference(args[1], args[2], ...)
CallDifference(x, args) ==
    /\ Len(args) >= 1
    /\ LET r == Difference(mem, m[args[1]], [j \in 1..(Len(args) - 1) |-> m[args[j + 1]]])
       IN  /\ Commit(r.h, x, r.p)
           /\ last' = FuncCall("Difference", x, args, 0)
           /\ link' = NewLink("Difference", x, args, Len(args) = 1,
                              Len(args) = 1 /\ IsZero(m[args[1]]))

\* x = set.Intersection(args...)
CallIntersection(x, args) ==
    \E r \in {Intersection(mem, [j \in 1..Len(args) |-> m[args[j]]])} :
        /\ Commit(r.h, x, r.p)
        /\ last' = FuncCall("Intersection", x, args, 0)
        /\ link' = NewLink("Intersection", x, args, FALSE, FALSE)

\* x = set.Union(args...)
CallUnion(x, args) ==
    \E r \in {Union(mem, [j \in 1..Len(args) |-> m[args[j]]])} :
        /\ Commit(r.h, x, r.p)
        /\ last' = FuncCall("Union", x, args, 0)
        /\ link' = NewLink("Union", x, args, FALSE, FALSE)

\* v := set.Max(x), or the panic
CallMax(x) ==
    \E r \in Max(mem, m[x]) :
        /\ UNCHANGED <<mem, m>>
        /\ last' = MethodCall("Max", x, 0, r.v, ~r.panic)
        /\ link' = NoLink

\* v := set.MaxFunc(x, cmp), or the panic
CallMaxFunc(x, cmp) ==
    \E r \in MaxFunc(mem, m[x], cmp) :
        /\ UNCHANGED <<mem, m>>
        /\ last' = [MethodCall("MaxFunc", x, 0, r.v, ~r.panic)
                        EXCEPT !.cmp = cmp]
        /\ link' = NoLink

\* v := set.Min(x), or the panic
CallMin(x) ==
    \E r \in Min(mem, m[x]) :
        /\ UNCHANGED <<mem, m>>
        /\ last' = MethodCall("Min", x, 0, r.v, ~r.panic)
        /\ link' = NoLink

\* v := set.MinFunc(x, cmp), or the panic
CallMinFunc(x, cmp) ==
    \E r \in MinFunc(mem, m[x], cmp) :
        /\ UNCHANGED <<mem, m>>
        /\ last' = [MethodCall("MinFunc", x, 0, r.v, ~r.panic)
                        EXCEPT !.cmp = cmp]
        /\ link' = NoLink

\* A program that calls the methods of its set variables.
Next ==
    \/ \E x \in Vars, v \in ValueSeqs : CallAdd(x, v)
    \/ \E x \in Vars, seq \in ValueSeqs : CallAddSeq(x, seq)
    \/ \E x \in Vars : CallClear(x)
    \/ \E x \in Vars, v \in ValueSeqs : CallDelete(x, v)
    \/ \E x \in Vars, del \in Funcs : CallDeleteFunc(x, del)
    \/ \E x \in Vars, seq \in ValueSeqs : CallDeleteSeq(x, seq)
    \/ \E x \in Vars : CallMarshalJSON(x)
    \/ \E x \in Vars : CallPop(x)
    \/ \E x \in Vars, b \in Docs \cup {last.data} : CallUnmarshalJSON(x, b)

Spec == Init /\ [][Next]_vars

\* A program that builds sets with Of, Collect, Clone and the set functions
\* and mutates them with Add, Delete, Clear and Pop.
NextAlgebra ==
    \/ \E x \in Vars, v \in ShortSeqs : CallOf(x, v)
    \/ \E x \in Vars, v \in ShortSeqs : CallAdd(x, v)
    \/ \E x \in Vars : CallClear(x)
    \/ \E x \in Vars, y \in Vars : CallClone(x, y)
    \/ \E x \in Vars, v \in ShortSeqs : CallDelete(x, v)
    \/ \E x \in Vars : CallPop(x)
    \/ \E x \in Vars, seq \in ShortSeqs : CallCollect(x, seq)
    \/ \E x \in Vars, args \in ArgSeqs : CallDifference(x, args)
    \/ \E x \in Vars, args \in ArgSeqs : CallIntersection(x, args)
    \/ \E x \in Vars, args \in ArgSeqs : CallUnion(x, args)

SpecAlgebra == Init /\ [][NextAlgebra]_vars

\* A program that fills and empties its sets and asks for their largest and
\* smallest elements, recovering from the panics.
NextOrder ==
    \/ \E x \in Vars, v \in ValueSeqs : CallAdd(x, v)
    \/ \E x \in Vars : CallClear(x)
    \/ \E x \in Vars, v \in ShortSeqs : CallDelete(x, v)
    \/ \E x \in Vars : CallMax(x)
    \/ \E x \in Vars, cmp \in Cmps : CallMaxFunc(x, cmp)
    \/ \E x \in Vars : CallMin(x)
    \/ \E x \in Vars, cmp \in Cmps : CallMinFunc(x, cmp)

SpecOrder == Init /\ [][NextOrder]_vars

\* ------------------------------------------------------------- properties

\* The elements of set variable x, and whether it is a zero set.
Members(x) == Keys(mem, m[x])

Zero(x) == IsZero(m[x])

\* The same after the step.
MembersNext(x) == Keys(mem', m'[x])

ZeroNext(x) == IsZero(m'[x])

\* The methods that work on their receiver in place.
MethodOps ==
    {"Add", "AddSeq", "Delete", "DeleteFunc", "DeleteSeq", "Clear", "Pop",
     "UnmarshalJSON"}

\* C1 as claimed: Add with no values on a zero set leaves IsZero() true.
C1_AddNothingKeepsZero ==
    (last.op = "Add" /\ last.zero /\ last.n = 0) => Zero(last.x)

\* C1 as amended: Add on a zero set makes the map whatever the number of
\* values: after Add with no values IsZero() is false and the set is empty,
\* and after Add with at least one value IsZero() is false.
C1_AddAllocates ==
    (last.op = "Add" /\ last.zero) =>
        /\ ~Zero(last.x)
        /\ last.n = 0 => Size(mem, m[last.x]) = 0
        /\ last.n > 0 => Size(mem, m[last.x]) > 0

C1_Witness ==
    /\ last.op = "Add"
    /\ last.zero
    /\ last.n = 0
    /\ ~Zero(last.x)

\* C2 as claimed: after a failed UnmarshalJSON the set is empty and
\* allocated.
C2_FailedDecodeClears ==
    (last.op = "UnmarshalJSON" /\ ~last.ok) =>
        /\ Size(mem, m[last.x]) = 0
        /\ ~Zero(last.x)

\* C2 as amended: UnmarshalJSON of a text that is neither null nor an array
\* returns the error and leaves the set as it was: same elements, same
\* IsZero().
C2_FailedDecodeKeeps ==
    [][\A x \in Vars :
        (last'.op = "UnmarshalJSON" /\ last'.x = x) =>
            /\ last'.data \in BadDocs => ~last'.ok
            /\ ~last'.ok =>
                /\ MembersNext(x) = Members(x)
                /\ ZeroNext(x) = Zero(x)]_vars

C2_Witness ==
    /\ last.op = "UnmarshalJSON"
    /\ ~last.ok
    /\ last.data \in BadDocs
    /\ Members(last.x) # {}

\* C3: t.UnmarshalJSON(b), with b the text s.MarshalJSON() just returned,
\* succeeds and leaves t with exactly the elements of s and the IsZero() of
\* s, whatever t held; the text is null exactly for a zero set and an array
\* otherwise.
C3_RoundTrip ==
    [][/\ last'.op = "MarshalJSON" =>
            /\ (last'.data = JsonNull) <=> ZeroNext(last'.x)
            /\ ~ZeroNext(last'.x) =>
                 \E v \in Orders(MembersNext(last'.x)) : last'.data = JsonArray(v)
       /\ \A s \in Vars, t \in Vars :
            (last'.op = "UnmarshalJSON" /\ last'.x = t /\ last'.from = s) =>
                /\ last'.ok
                /\ MembersNext(t) = Members(s)
                /\ ZeroNext(t) = Zero(s)
                /\ Equal(mem', m'[t], m'[s])]_vars

C3_Witness ==
    /\ last.op = "UnmarshalJSON"
    /\ last.from # ""
    /\ last.from # last.x
    /\ last.ok
    /\ ~last.zero
    /\ Size(mem, m[last.x]) = 1
    /\ Equal(mem, m[last.x], m[last.from])

\* C9 as claimed: Delete and Clear on a zero set leave it allocated and
\* empty, and Clear on an allocated set leaves it allocated and empty.
C9_DeleteClearAllocate ==
    /\ (last.op \in {"Delete", "Clear"} /\ last.zero) =>
            (~Zero(last.x) /\ Size(mem, m[last.x]) = 0)
    /\ (last.op = "Clear" /\ ~last.zero) =>
            (~Zero(last.x) /\ Size(mem, m[last.x]) = 0)

\* C9 as amended: Delete and Clear on a zero set allocate nothing, the set is
\* still a zero set and empty; Clear on an allocated set leaves it allocated
\* and empty.
C9_DeleteClearKeepZero ==
    /\ (last.op \in {"Delete", "Clear"} /\ last.zero) =>
            (Zero(last.x) /\ Size(mem, m[last.x]) = 0)
    /\ (last.op = "Delete" /\ last.zero) => last.ret = 0
    /\ (last.op = "Clear" /\ ~last.zero) =>
            (~Zero(last.x) /\ Size(mem, m[last.x]) = 0)

C9_Witness ==
    /\ last.op = "Delete"
    /\ last.n > 0
    /\ last.zero
    /\ Zero(last.x)

\* C10 as claimed: once IsZero() is false for a variable, no method called
\* on it makes it true again.
C10_NeverZeroAgain ==
    (last.op \in MethodOps /\ ~last.zero) => ~Zero(last.x)

\* C10 as amended: IsZero() tells whether the variable holds a map now.  A
\* method called on an allocated set leaves IsZero() false, except
\* UnmarshalJSON of null, which succeeds and makes the set a zero set again;
\* on a zero set only Add, AddSeq of a sequence that is not empty and
\* UnmarshalJSON of an array make IsZero() false.
C10_ZeroOnlyByNull ==
    /\ (last.op \in MethodOps /\ ~last.zero /\ Zero(last.x)) =>
            (last.op = "UnmarshalJSON" /\ last.ok /\ last.data = JsonNull)
    /\ (last.op = "UnmarshalJSON" /\ last.ok /\ last.data = JsonNull) =>
            Zero(last.x)
    /\ (last.op \in MethodOps /\ last.zero /\ ~Zero(last.x)) =>
            \/ last.op = "Add"
            \/ last.op = "AddSeq" /\ last.n > 0
            \/ last.op = "UnmarshalJSON" /\ last.ok /\ last.data # JsonNull

C10_Witness ==
    /\ last.op = "UnmarshalJSON"
    /\ last.data = JsonNull
    /\ ~last.zero
    /\ Zero(last.x)

\* The methods C4, C5 and C6 mutate sets with.
Mutators == {"Add", "Delete", "Clear", "Pop"}

\* The step is a call of one of the Mutators on x.
Mutates(x) == last'.op \in Mutators /\ last'.x = x

\* The step leaves the elements and the IsZero() of x as they were.
Untouched(x) == MembersNext(x) = Members(x) /\ ZeroNext(x) = Zero(x)

\* The set arguments of the call the step makes, and its elements argument j
\* had before the call.
ArgMembers(j) == Members(last'.args[j])

\* After the step no other variable holds the map of x.
FreshNext(x) == ZeroNext(x) \/ \A y \in Vars \ {x} : m'[y] # m'[x]

\* C4: c = s.Clone() has the elements and the IsZero() of s and leaves s as
\* it was; afterwards Add, Delete, Clear and Pop on c leave the elements and
\* the IsZero() of s as they were, and on s leave the elements of c as they
\* were.
C4_CloneIndependent ==
    [][/\ last'.op = "Clone" =>
            LET c == last'.x
                s == last'.args[1]
            IN  /\ MembersNext(c) = Members(s)
                /\ ZeroNext(c) = Zero(s)
                /\ Equal(mem', m'[s], m'[c])
                /\ s # c => Untouched(s)
       /\ link.op = "Clone" =>
            \A s \in link.ins :
                /\ Mutates(link.res) => Untouched(s)
                /\ Mutates(s) => MembersNext(link.res) = Members(link.res)]_vars

C4_Witness ==
    /\ link.op = "Clone"
    /\ last.op = "Pop"
    /\ last.ok
    /\ last.x = link.res
    /\ \E s \in link.ins : Members(s) = Members(link.res) \cup {last.ret}

\* C5: Union, Intersection, Collect and Difference with at least one other
\* leave every input set as it was and return a set whose map no other
\* variable holds; afterwards Add, Delete, Clear and Pop on the result leave
\* every input as it was, and on an input leave the result as it was.
C5_ResultIndependent ==
    [][/\ (\/ last'.op \in {"Union", "Intersection", "Collect"}
           \/ last'.op = "Difference" /\ Len(last'.args) >= 2) =>
            /\ \A s \in Range(last'.args) \ {last'.x} : Untouched(s)
            /\ FreshNext(last'.x)
       /\ (link.op \in {"Union", "Intersection", "Difference"} /\ ~link.pass) =>
            \A s \in link.ins :
                /\ Mutates(link.res) => Untouched(s)
                /\ Mutates(s) => Untouched(link.res)]_vars

C5_Witness ==
    /\ link.op = "Union"
    /\ last.op = "Add"
    /\ last.x = link.res
    /\ \E s \in link.ins : ~Zero(s) /\ Members(s) # Members(link.res)

\* C6 as claimed: after r = Difference(s), for every s, a set changed
\* through r or through s by Add, Delete, Clear and Pop shows the same
\* elements through both.
C6_NoOthersSameSet ==
    (link.op = "Difference" /\ link.pass) =>
        \A s \in link.ins : Members(link.res) = Members(s)

\* C6 as amended: after r = Difference(s) for an allocated s (IsZero()
\* false), r and s hold the same map: whatever Add, Delete, Clear and Pop do
\* through one shows through the other.  For a zero s, r is another zero set:
\* Add through r or s allocates a map the other does not see.
C6_NoOthersSameMap ==
    [][/\ (link'.op = "Difference" /\ link'.pass /\ ~link'.zero) =>
            \A s \in link'.ins :
                /\ MembersNext(link'.res) = MembersNext(s)
                /\ ~ZeroNext(link'.res) /\ ~ZeroNext(s)
       /\ (last'.op = "Difference" /\ link'.pass /\ link'.zero) =>
            ZeroNext(link'.res)
       /\ (link.op = "Difference" /\ link.pass /\ link.zero) =>
            \A s \in link.ins :
                /\ Mutates(link.res) => Untouched(s)
                /\ Mutates(s) => Untouched(link.res)]_vars

C6_Witness ==
    /\ link.op = "Difference"
    /\ link.pass
    /\ ~link.zero
    /\ last.op = "Add"
    /\ last.n = 1
    /\ last.x = link.res
    /\ \E s \in link.ins : Members(s) = Elems /\ Members(link.res) = Elems

\* C7: Union has exactly the elements of at least one input, none without
\* inputs; Intersection of two or more inputs has exactly the elements of
\* every input, and of no or one input none; Difference with at least one
\* other has exactly the elements of s that are in no other.
C7_SetAlgebra ==
    [][LET n == Len(last'.args)
       IN  /\ last'.op = "Union" =>
                MembersNext(last'.x) = UNION {ArgMembers(j) : j \in 1..n}
           /\ last'.op = "Intersection" =>
                MembersNext(last'.x) =
                    IF n >= 2
                    THEN {v \in Elems : \A j \in 1..n : v \in ArgMembers(j)}
                    ELSE {}
           /\ (last'.op = "Difference" /\ n >= 2) =>
                MembersNext(last'.x) =
                    ArgMembers(1) \ UNION {ArgMembers(j) : j \in 2..n}]_vars

C7_Witness ==
    /\ last.op = "Intersection"
    /\ Len(last.args) = 2
    /\ last.args[1] # last.args[2]
    /\ Size(mem, m[last.x]) = 1
    /\ \E s \in Range(last.args) \ {last.x} : Size(mem, m[s]) = 2

\* The result of the call just made.
IsResult(op, least) == last.op = op /\ Len(last.args) >= least

\* C8 as claimed: the result of Union of at least one set, Intersection of
\* at least two and Difference with at least one other is allocated when it
\* is empty.
C8_EmptyResultAllocated ==
    (\/ IsResult("Union", 1)
     \/ IsResult("Intersection", 2)
     \/ IsResult("Difference", 2)) =>
        (Size(mem, m[last.x]) = 0 => ~Zero(last.x))

\* C8 as amended: like Collect, these functions make the map of the result
\* with its first element: the result of Union of at least one set, of
\* Intersection of at least two, of Difference with at least one other and
\* of Collect is a zero set exactly when it has no elements.
C8_EmptyResultZero ==
    (\/ IsResult("Union", 1)
     \/ IsResult("Intersection", 2)
     \/ IsResult("Difference", 2)
     \/ IsResult("Collect", 0)) =>
        (Size(mem, m[last.x]) = 0 <=> Zero(last.x))

C8_Witness ==
    /\ IsResult("Union", 1)
    /\ Zero(last.x)
    /\ \E s \in Range(last.args) \ {last.x} : ~Zero(s)

\* The methods that delete the values they are handed.
DeleteOps == {"Delete", "DeleteSeq", "DeleteFunc"}

\* C11: Delete, DeleteSeq and DeleteFunc remove exactly the members of the
\* receiver that the call names (the values handed in, the values the
\* sequence produces, the values the function holds on) and keep every other
\* member; the result is the size before minus the size after, which is the
\* number of named values that were members, however often a value is
\* named; DeleteFunc with the nil function removes nothing and returns 0.
C11_DeleteExactly ==
    [][last'.op \in DeleteOps =>
        LET x == last'.x
        IN  /\ MembersNext(x) = Members(x) \ last'.vals
            /\ last'.ret = Cardinality(Members(x)) - Cardinality(MembersNext(x))
            /\ last'.ret = Cardinality(Members(x) \cap last'.vals)
            /\ ZeroNext(x) = Zero(x)
            /\ (last'.op = "DeleteFunc" /\ ~last'.ok) =>
                    (last'.ret = 0 /\ MembersNext(x) = Members(x))]_vars

\* Delete was handed a value twice, removed it once and left a member.
C11_Witness ==
    /\ last.op = "Delete"
    /\ last.n > Cardinality(last.vals)
    /\ last.ret = 1
    /\ Members(last.x) # {}
    /\ Members(last.x) \cap last.vals = {}

\* C12: a call of Pop on a set with members returns true and a value that
\* was a member just before, and removes exactly that value; a call on an
\* empty or zero set returns the zero value of E and false and leaves the
\* members and IsZero() as they were.  So in a run of calls on a set that
\* began with n members every member that is gone was returned by exactly
\* one call, and when a call returns false n calls have returned true.
C12_PopDrains ==
    [][last'.op = "Pop" =>
        LET x == last'.x
        IN  /\ last'.ok <=> Members(x) # {}
            /\ last'.ok =>
                    /\ last'.ret \in Members(x)
                    /\ MembersNext(x) = Members(x) \ {last'.ret}
            /\ ~last'.ok =>
                    /\ last'.ret = ZeroE
                    /\ MembersNext(x) = Members(x)
                    /\ ZeroNext(x) = Zero(x)
                    /\ last'.n = Cardinality(last'.vals)
            /\ MembersNext(x) \subseteq last'.vals
            /\ last'.n = Cardinality(last'.vals \ MembersNext(x))]_vars

\* A run of Pop on a set of two members has returned true twice and then
\* false.
C12_Witness ==
    /\ last.op = "Pop"
    /\ ~last.ok
    /\ last.n = 2
    /\ Cardinality(last.vals) = 2
    /\ Members(last.x) = {}
    /\ ~Zero(last.x)

\* The functions that return the largest or smallest element.
OrderOps == {"Max", "MaxFunc", "Min", "MinFunc"}

\* C13: on a set with members, Max returns a member that is >= every member
\* and Min a member that is <= every member; MaxFunc returns a member that
\* no member compares greater than under cmp, and MinFunc one that no member
\* compares less than; on an empty or zero set the four functions panic; and
\* in every case the set is as it was.
C13_Extremes ==
    [][last'.op \in OrderOps =>
        LET x == last'.x
            r == last'.ret
        IN  /\ mem' = mem /\ m' = m
            /\ last'.ok <=> Members(x) # {}
            /\ last'.ok =>
                    /\ r \in Members(x)
                    /\ last'.op = "Max" => \A y \in Members(x) : r >= y
                    /\ last'.op = "Min" => \A y \in Members(x) : r <= y
                    /\ last'.op = "MaxFunc" =>
                            \A y \in Members(x) : ~(Cmp(last'.cmp, y, r) > 0)
                    /\ last'.op = "MinFunc" =>
                            \A y \in Members(x) : ~(Cmp(last'.cmp, y, r) < 0)]_vars

\* MaxFunc, handed the reversed order, returned the smaller of two members.
C13_Witness ==
    /\ last.op = "MaxFunc"
    /\ last.ok
    /\ Cardinality(Members(last.x)) = 2
    /\ \E y \in Members(last.x) : y > last.ret /\ Cmp(last.cmp, last.ret, y) > 0

====
